---- MODULE Spec2Model ----
(***************************************************************************)
(* THR10 live/staged synchronisation controller                            *)
(* (sysex_tones/THR10/controller.py) over the structured state, diff and   *)
(* merge of sysex_tones/THR10/state.py.                                    *)
(*                                                                         *)
(* Python values are modelled as tagged records:                           *)
(*   None            [cls |-> "NoneType"]                                  *)
(*   int n           [cls |-> "int",  iv |-> n]                            *)
(*   bool b          [cls |-> "bool", bv |-> b]                            *)
(*   str s           [cls |-> "str",  sv |-> s]                            *)
(*   dataclass C     [cls |-> "C",    f  |-> [field |-> value]]            *)
(* Strings that the code takes apart (parameter paths) are sequences of    *)
(* one-character strings.  Time is counted in ticks of 0.05 s.             *)
(***************************************************************************)
EXTENDS Integers, Sequences, FiniteSets, TLC

VARIABLES
    live_state,      \* THR10Controller.live_state
    staged_state,    \* THR10Controller.staged_state
    conflicts,       \* THR10Controller.conflicts : path -> [live, staged, device]
    last_edit_time,  \* THR10Controller._last_edit_time (NoTime for None)
    pending_apply,   \* THR10Controller._pending_apply
    now,             \* reading of the injected clock
    pc,              \* position inside refresh_from_device ("idle" between calls)
    rf,              \* locals of the running refresh_from_device call
    io,              \* transport traffic of the current (or last) call
    call,            \* the current (or last) call: operation, arguments, outcome
    input,           \* arguments of the state.py function under examination
    output           \* what that function has returned (or built so far)

vars == <<live_state, staged_state, conflicts, last_edit_time, pending_apply,
          now, pc, rf, io, call, input, output>>

-----------------------------------------------------------------------------
(* Bounds of the model *)

\* last reading of the advancing clock (ticks of 0.05 s)
MaxClock == 7

\* longest sequence of text lines handed to from_text_settings
MaxLines == 3

-----------------------------------------------------------------------------
(* Python values *)

None == [cls |-> "NoneType"]

IntV(n) == [cls |-> "int", iv |-> n]

BoolV(b) == [cls |-> "bool", bv |-> b]

StrV(s) == [cls |-> "str", sv |-> s]

DataclassNames == {"THR10State", "AmpState", "CabState", "CompressorState",
                   "ModulationState", "DelayState", "ReverbState", "GateState"}

is_dataclass(x) == x.cls \in DataclassNames

IsNumber(x) == x.cls \in {"int", "bool"}

NumberOf(x) == IF x.cls = "bool" THEN (IF x.bv THEN 1 ELSE 0) ELSE x.iv

\* Python's != on the values above: bool is a subclass of int (True == 1)
PyNe(a, b) == IF IsNumber(a) /\ IsNumber(b) THEN NumberOf(a) # NumberOf(b) ELSE a # b

\* Python truthiness of a value
Truthy(x) ==
    CASE x.cls = "NoneType" -> FALSE
      [] x.cls = "bool" -> x.bv
      [] x.cls = "int" -> x.iv # 0
      [] x.cls = "str" -> x.sv # ""
      [] OTHER -> TRUE

-----------------------------------------------------------------------------
(* The structured state: dataclasses of state.py, as constructed with no      *)
(* arguments (every leaf None, every section a fresh record)                  *)

AmpState == [cls |-> "AmpState", f |->
    [model |-> None, gain |-> None, master |-> None, bass |-> None,
     middle |-> None, treble |-> None]]

CabState == [cls |-> "CabState", f |-> [model |-> None]]

CompressorState == [cls |-> "CompressorState", f |->
    [on |-> None, kind |-> None, sustain |-> None, output |-> None,
     threshold |-> None, attack |-> None, release |-> None,
     ratio |-> None, knee |-> None]]

ModulationState == [cls |-> "ModulationState", f |->
    [on |-> None, kind |-> None, speed |-> None, depth |-> None, mix |-> None,
     manual |-> None, feedback |-> None, spread |-> None, freq |-> None]]

DelayState == [cls |-> "DelayState", f |->
    [on |-> None, time |-> None, feedback |-> None, high_cut |-> None,
     low_cut |-> None, level |-> None]]

ReverbState == [cls |-> "ReverbState", f |->
    [on |-> None, kind |-> None, time |-> None, pre |-> None, low_cut |-> None,
     high_cut |-> None, high_ratio |-> None, low_ratio |-> None,
     level |-> None, reverb |-> None, filter |-> None]]

GateState == [cls |-> "GateState", f |->
    [on |-> None, threshold |-> None, release |-> None]]

THR10State == [cls |-> "THR10State", f |->
    [name |-> None, edited |-> None, stored |-> None,
     amp |-> AmpState, cab |-> CabState, compressor |-> CompressorState,
     modulation |-> ModulationState, delay |-> DelayState,
     reverb |-> ReverbState, gate |-> GateState]]

\* dataclasses.fields(x): the field names of a dataclass instance
fields(x) == DOMAIN x.f

\* getattr(obj, name, None) as diff and merge use it: the field's value when
\* obj is a dataclass that has the field, None otherwise
GetAttrOrNone(obj, name) ==
    IF is_dataclass(obj) /\ name \in fields(obj) THEN obj.f[name] ELSE None

\* a state with some leaves of its sections set (used for inputs and examples)
WithLeaf(state, group, name, value) ==
    [state EXCEPT !.f[group].f[name] = value]

-----------------------------------------------------------------------------
(* Diff / merge engine (state.py) *)

NextPath(path, name) == IF path # "" THEN path \o "." \o name ELSE name

RECURSIVE DiffEntries(_, _, _)
\* _diff_values: the set of entries [path, live, staged] it adds to diffs
DiffEntries(live, staged, path) ==
    IF staged = None THEN {}
    ELSE IF is_dataclass(staged) THEN
        LET live_value == IF is_dataclass(live) THEN live ELSE None
        IN UNION { DiffEntries(GetAttrOrNone(live_value, n), staged.f[n],
                               NextPath(path, n)) : n \in fields(staged) }
    ELSE IF PyNe(live, staged)
         THEN {[path |-> path, live |-> live, staged |-> staged]}
         ELSE {}

\* the dict built from a set of entries
DiffDict(es) ==
    [p \in {e.path : e \in es} |->
       LET e == CHOOSE e \in es : e.path = p
       IN [live |-> e.live, staged |-> e.staged]]

RECURSIVE DiffEntriesSkipNoneLive(_, _, _)
\* _diff_values that reports nothing where live holds no value
DiffEntriesSkipNoneLive(live, staged, path) ==
    IF staged = None THEN {}
    ELSE IF is_dataclass(staged) THEN
        LET live_value == IF is_dataclass(live) THEN live ELSE None
        IN UNION { DiffEntriesSkipNoneLive(GetAttrOrNone(live_value, n), staged.f[n],
                                           NextPath(path, n)) : n \in fields(staged) }
    ELSE IF live # None /\ PyNe(live, staged)
         THEN {[path |-> path, live |-> live, staged |-> staged]}
         ELSE {}

\* diff_state that reports nothing where live holds no value
diff_state_skips_none_live(live, staged) == DiffDict(DiffEntriesSkipNoneLive(live, staged, ""))

RECURSIVE DiffEntriesNoneForcesEmpty(_, _, _)
\* _diff_values that takes a None staged leaf for a value to compare
DiffEntriesNoneForcesEmpty(live, staged, path) ==
    IF staged = None
    THEN IF live = None \/ is_dataclass(live) THEN {}
         ELSE {[path |-> path, live |-> live, staged |-> staged]}
    ELSE IF is_dataclass(staged) THEN
        LET live_value == IF is_dataclass(live) THEN live ELSE None
        IN UNION { DiffEntriesNoneForcesEmpty(GetAttrOrNone(live_value, n), staged.f[n],
                                              NextPath(path, n)) : n \in fields(staged) }
    ELSE IF PyNe(live, staged)
         THEN {[path |-> path, live |-> live, staged |-> staged]}
         ELSE {}

\* diff_state that takes a None staged leaf for "force to empty"
diff_state_none_forces_empty(live, staged) == DiffDict(DiffEntriesNoneForcesEmpty(live, staged, ""))

\* diff_state: dict path -> {'live':, 'staged':}
diff_state(live, staged) ==
    LET es == DiffEntries(live, staged, "")
    IN [p \in {e.path : e \in es} |->
          LET e == CHOOSE e \in es : e.path = p
          IN [live |-> e.live, staged |-> e.staged]]

RECURSIVE MergeDataclasses(_, _)
\* _merge_dataclasses
MergeDataclasses(live, staged) ==
    IF staged = None THEN live
    ELSE IF live = None THEN staged
    ELSE IF is_dataclass(staged) THEN
        [cls |-> staged.cls,
         f |-> [n \in fields(staged) |->
                  MergeDataclasses(GetAttrOrNone(live, n), staged.f[n])]]
    ELSE staged

\* apply_state with the arguments swapped: live wins over staged
apply_state_live_wins(live, staged) == MergeDataclasses(staged, live)

\* apply_state that returns the staged overlay and drops what live holds
apply_state_staged_only(live, staged) == staged

\* apply_state that returns live and drops the staged edits
apply_state_returns_live(live, staged) == live

\* apply_state
apply_state(live, staged) == MergeDataclasses(live, staged)

EmptyDict == [p \in {} |-> None]

-----------------------------------------------------------------------------
(* Parameter paths (controller.py, _set_state_value and _normalize_field)    *)
(* A path is a sequence of one-character strings.                            *)

UpperCase == <<"A","B","C","D","E","F","G","H","I","J","K","L","M",
               "N","O","P","Q","R","S","T","U","V","W","X","Y","Z">>

LowerCase == <<"a","b","c","d","e","f","g","h","i","j","k","l","m",
               "n","o","p","q","r","s","t","u","v","w","x","y","z">>

\* str.lower() on one character
LowerChar(c) ==
    IF \E i \in 1..26 : UpperCase[i] = c
    THEN LowerCase[CHOOSE i \in 1..26 : UpperCase[i] = c]
    ELSE c

Whitespace == {" ", "\t", "\n", "\r"}

RECURSIVE LStrip(_)
LStrip(s) == IF s # <<>> /\ Head(s) \in Whitespace THEN LStrip(Tail(s)) ELSE s

RECURSIVE RStrip(_)
RStrip(s) ==
    IF s # <<>> /\ s[Len(s)] \in Whitespace
    THEN RStrip(SubSeq(s, 1, Len(s) - 1)) ELSE s

\* str.strip()
Strip(s) == RStrip(LStrip(s))

\* str.replace(old, new) for single characters
ReplaceChar(s, old, new) == [i \in 1..Len(s) |-> IF s[i] = old THEN new ELSE s[i]]

\* _normalize_field: name.strip().lower().replace(' ', '_').replace('-', '_')
normalize_field(name) ==
    LET stripped == Strip(name)
        lowered == [i \in 1..Len(stripped) |-> LowerChar(stripped[i])]
    IN ReplaceChar(ReplaceChar(lowered, " ", "_"), "-", "_")

RECURSIVE SplitOn(_, _, _)
\* str.split(sep): cur is the piece being collected
SplitOn(s, sep, cur) ==
    IF s = <<>> THEN <<cur>>
    ELSE IF Head(s) = sep THEN <<cur>> \o SplitOn(Tail(s), sep, <<>>)
    ELSE SplitOn(Tail(s), sep, Append(cur, Head(s)))

\* [part for part in path.replace('/', '.').split('.') if part]
PathParts(path) ==
    SelectSeq(SplitOn(ReplaceChar(path, "/", "."), ".", <<>>), LAMBDA part : part # <<>>)

RECURSIVE Join(_)
\* the characters of a name as one string
Join(s) == IF s = <<>> THEN "" ELSE Head(s) \o Join(Tail(s))

\* Attributes every Python object answers hasattr() for although they are
\* no dataclass field; on a dataclass instance "__doc__" can be assigned
ObjectAttrs == {"__doc__"}

\* hasattr(obj, name)
hasattr(obj, name) ==
    \/ name \in ObjectAttrs
    \/ is_dataclass(obj) /\ name \in fields(obj)

\* getattr(obj, name) where hasattr(obj, name) holds
getattr(obj, name) ==
    IF is_dataclass(obj) /\ name \in fields(obj) THEN obj.f[name]
    ELSE IF obj = None THEN None ELSE StrV("doc")

RECURSIVE Resolve(_, _)
\* the loop over parts[:-1] of _set_state_value: the list of field names
\* walked from the root, or "raise" when a group does not resolve
Resolve(cursor, groups) ==
    IF groups = <<>> THEN [err |-> "", cursor |-> cursor, names |-> <<>>]
    ELSE LET name == Join(normalize_field(Head(groups)))
         IN IF ~ hasattr(cursor, name)
            THEN [err |-> "AttributeError", cursor |-> cursor, names |-> <<>>]
            ELSE LET r == Resolve(getattr(cursor, name), Tail(groups))
                 IN [r EXCEPT !.names = <<name>> \o r.names]

\* setattr(root.<names>, last, value) on the tree: the new root
RECURSIVE SetAt(_, _, _, _)
SetAt(root, names, last, value) ==
    IF names = <<>> THEN [root EXCEPT !.f[last] = value]
    ELSE [root EXCEPT !.f[Head(names)] = SetAt(root.f[Head(names)], Tail(names), last, value)]

\* _set_state_value: [err, state] where err is "" on success and state the
\* state after the call (the state is modified in place)
set_state_value(state, path, value) ==
    LET parts == PathParts(path)
    IN IF parts = <<>> THEN [err |-> "ValueError", state |-> state]
       ELSE LET r == Resolve(state, SubSeq(parts, 1, Len(parts) - 1))
                last == Join(normalize_field(parts[Len(parts)]))
            IN IF r.err # "" THEN [err |-> r.err, state |-> state]
               ELSE IF ~ hasattr(r.cursor, last)
                    THEN [err |-> "AttributeError", state |-> state]
               ELSE IF ~ is_dataclass(r.cursor)
                    \* setattr on None, an int or a str: no such attribute can be set
                    THEN [err |-> "AttributeError", state |-> state]
               ELSE IF last \notin fields(r.cursor)
                    \* an instance attribute is created; no field changes
                    THEN [err |-> "", state |-> state]
               ELSE [err |-> "", state |-> SetAt(state, r.names, last, value)]

-----------------------------------------------------------------------------
(* Parameter block codec (state.py, _state_to_data and its helpers)          *)

\* sysex_tones.THR.CONSTANTS
THR_SYSEX_SIZE == 256

THR_SETTINGS_NAME_SIZE == 64

\* sysex_tones.THR10.CONSTANTS: the ordered option names
THR10_AMP_NAMES == <<"Clean", "Crunch", "Lead">>

THR10_CAB_NAMES == <<"US 4x12", "US 2x12">>

THR10_COMPRESSOR_NAMES == <<"Stomp", "Rack">>

THR10_MODULATION_NAMES == <<"Chorus", "Flanger", "Tremelo", "Phaser">>

THR10_REVERB_NAMES == <<"Hall", "Room", "Plate", "Spring">>

THR10_RATIO_NAMES == <<"1:1", "1:4", "1:8">>

THR10_KNEE_NAMES == <<"soft", "medium", "hard">>

\* sysex_tones.THR10.CONSTANTS: THR10_STREAM_LIMITS / THR10_STREAM_SUBLIMITS,
\* [min, max] of a one-byte parameter and of a two-byte (14-bit) parameter
ByteLimits == <<0, 100>>

WideLimits == <<0, 600>>

\* sysex_tones.get_minmax
get_minmax(value, lo, hi) == IF value < lo THEN lo ELSE IF value > hi THEN hi ELSE value

\* _limit_value
limit_value(value, limits) ==
    get_minmax(IF value = None THEN limits[1] ELSE NumberOf(value), limits[1], limits[2])

\* str.lower() on the option names above
LowerStr(s) ==
    CASE s = "Clean" -> "clean" [] s = "Crunch" -> "crunch" [] s = "Lead" -> "lead"
      [] s = "US 4x12" -> "us 4x12" [] s = "US 2x12" -> "us 2x12"
      [] s = "Stomp" -> "stomp" [] s = "Rack" -> "rack" [] s = "RACK" -> "rack"
      [] s = "Chorus" -> "chorus" [] s = "Flanger" -> "flanger"
      [] s = "Tremelo" -> "tremelo" [] s = "Phaser" -> "phaser"
      [] s = "Hall" -> "hall" [] s = "Room" -> "room" [] s = "Plate" -> "plate"
      [] s = "Spring" -> "spring"
      [] OTHER -> s

\* _option_index (index counted from 0)
option_index(value, options, default) ==
    IF value = None THEN default
    ELSE IF IsNumber(value) THEN get_minmax(NumberOf(value), 0, Len(options) - 1)
    ELSE IF \E i \in 1..Len(options) : LowerStr(options[i]) = LowerStr(value.sv)
         THEN (CHOOSE i \in 1..Len(options) :
                  /\ LowerStr(options[i]) = LowerStr(value.sv)
                  /\ \A j \in 1..(i - 1) : LowerStr(options[j]) # LowerStr(value.sv)) - 1
         ELSE default

\* _on_off_value that writes the flag as a boolean 1/0
on_off_value_boolean(value) == IF Truthy(value) THEN 1 ELSE 0

\* _on_off_value
on_off_value(value) == IF Truthy(value) THEN 0 ELSE 127

\* sysex_tones.convert_to_midi_int followed by struct.pack('!I', ...)[2:4]
encode_midi_int(value) == <<(value \div 128) % 256, value % 128>>

Put(data, index, value) == [data EXCEPT ![index] = value]

\* _set_midi_int
set_midi_int(data, start_index, value) ==
    Put(Put(data, start_index, encode_midi_int(value)[1]),
        start_index + 1, encode_midi_int(value)[2])

\* name.encode('ascii', errors='ignore') for the names of the model
AsciiBytes(s) ==
    CASE s = "A" -> <<65>> [] s = "AB" -> <<65, 66>> [] OTHER -> <<>>

\* _apply_name
apply_name(data, name) ==
    IF ~ Truthy(name) THEN data
    ELSE LET name_bytes == SubSeq(AsciiBytes(name.sv), 1,
                 IF Len(AsciiBytes(name.sv)) < THR_SETTINGS_NAME_SIZE
                 THEN Len(AsciiBytes(name.sv)) ELSE THR_SETTINGS_NAME_SIZE)
         IN [i \in DOMAIN data |->
               IF i < Len(name_bytes) THEN name_bytes[i + 1]
               ELSE IF i < THR_SETTINGS_NAME_SIZE THEN 0 ELSE data[i]]

\* _apply_amp
apply_amp(data, amp) ==
    LET d0 == Put(data, 128, option_index(amp.f.model, THR10_AMP_NAMES, 0))
        d1 == Put(d0, 129, limit_value(amp.f.gain, ByteLimits))
        d2 == Put(d1, 130, limit_value(amp.f.master, ByteLimits))
        d3 == Put(d2, 131, limit_value(amp.f.bass, ByteLimits))
        d4 == Put(d3, 132, limit_value(amp.f.middle, ByteLimits))
    IN Put(d4, 133, limit_value(amp.f.treble, ByteLimits))

\* _apply_cab
apply_cab(data, cab) == Put(data, 134, option_index(cab.f.model, THR10_CAB_NAMES, 0))

AnySet(vals) == \E v \in vals : v # None

\* _infer_compressor_kind
infer_compressor_kind(c) ==
    IF Truthy(c.f.kind) THEN c.f.kind
    ELSE IF AnySet({c.f.threshold, c.f.attack, c.f.release, c.f.ratio, c.f.knee})
         THEN StrV("Rack")
    ELSE StrV("Stomp")

\* _infer_modulation_kind that looks at freq before spread and manual
infer_modulation_kind_tremelo_first(m) ==
    IF Truthy(m.f.kind) THEN m.f.kind
    ELSE IF m.f.freq # None THEN StrV("Tremelo")
    ELSE IF m.f.spread # None \/ m.f.manual # None THEN StrV("Flanger")
    ELSE IF m.f.feedback # None THEN StrV("Phaser")
    ELSE StrV("Chorus")

\* _infer_modulation_kind
infer_modulation_kind(m) ==
    IF Truthy(m.f.kind) THEN m.f.kind
    ELSE IF m.f.spread # None \/ m.f.manual # None THEN StrV("Flanger")
    ELSE IF m.f.freq # None THEN StrV("Tremelo")
    ELSE IF m.f.feedback # None THEN StrV("Phaser")
    ELSE StrV("Chorus")

\* _infer_reverb_kind
infer_reverb_kind(r) ==
    IF Truthy(r.f.kind) THEN r.f.kind
    ELSE IF r.f.reverb # None \/ r.f.filter # None THEN StrV("Spring")
    ELSE StrV("Hall")

\* _apply_compressor
apply_compressor(data, c) ==
    LET kind_index == option_index(infer_compressor_kind(c), THR10_COMPRESSOR_NAMES, 0)
        d0 == Put(Put(data, 144, kind_index), 159, on_off_value(c.f.on))
    IN IF kind_index = 0
       THEN Put(Put(d0, 145, limit_value(c.f.sustain, ByteLimits)),
                146, limit_value(c.f.output, ByteLimits))
       ELSE LET r1 == set_midi_int(d0, 146, limit_value(c.f.threshold, WideLimits))
                r2 == Put(r1, 147, limit_value(c.f.attack, ByteLimits))
                r3 == Put(r2, 148, limit_value(c.f.release, ByteLimits))
                r4 == Put(r3, 149, option_index(c.f.ratio, THR10_RATIO_NAMES, 0))
                r5 == Put(r4, 150, option_index(c.f.knee, THR10_KNEE_NAMES, 0))
            IN set_midi_int(r5, 151, limit_value(c.f.output, WideLimits))

\* _apply_modulation
apply_modulation(data, m) ==
    LET kind_index == option_index(infer_modulation_kind(m), THR10_MODULATION_NAMES, 0)
        d0 == Put(Put(data, 160, kind_index), 175, on_off_value(m.f.on))
        speed == limit_value(m.f.speed, ByteLimits)
        depth == limit_value(m.f.depth, ByteLimits)
        manual == limit_value(m.f.manual, ByteLimits)
        feedback == limit_value(m.f.feedback, ByteLimits)
    IN IF kind_index = 0
       THEN Put(Put(Put(d0, 161, speed), 162, depth), 163, limit_value(m.f.mix, ByteLimits))
       ELSE IF kind_index = 1
       THEN Put(Put(Put(Put(Put(d0, 161, speed), 162, manual), 163, depth),
                    164, feedback), 165, limit_value(m.f.spread, ByteLimits))
       ELSE IF kind_index = 2
       THEN Put(Put(d0, 161, limit_value(m.f.freq, ByteLimits)), 162, depth)
       ELSE Put(Put(Put(Put(d0, 161, speed), 162, manual), 163, depth), 164, feedback)

\* _apply_delay
apply_delay(data, d) ==
    LET d0 == Put(data, 191, on_off_value(d.f.on))
        d1 == set_midi_int(d0, 177, limit_value(d.f.time, WideLimits))
        d2 == Put(d1, 179, limit_value(d.f.feedback, ByteLimits))
        d3 == set_midi_int(d2, 180, limit_value(d.f.high_cut, WideLimits))
        d4 == set_midi_int(d3, 182, limit_value(d.f.low_cut, WideLimits))
    IN Put(d4, 184, limit_value(d.f.level, ByteLimits))

\* _apply_reverb
apply_reverb(data, r) ==
    LET kind_index == option_index(infer_reverb_kind(r), THR10_REVERB_NAMES, 0)
        d0 == Put(Put(data, 192, kind_index), 207, on_off_value(r.f.on))
    IN IF kind_index \in {0, 1, 2}
       THEN LET r1 == set_midi_int(d0, 193, limit_value(r.f.time, WideLimits))
                r2 == set_midi_int(r1, 195, limit_value(r.f.pre, WideLimits))
                r3 == set_midi_int(r2, 197, limit_value(r.f.low_cut, WideLimits))
                r4 == set_midi_int(r3, 199, limit_value(r.f.high_cut, WideLimits))
                r5 == Put(r4, 201, limit_value(r.f.high_ratio, ByteLimits))
                r6 == Put(r5, 202, limit_value(r.f.low_ratio, ByteLimits))
            IN Put(r6, 203, limit_value(r.f.level, ByteLimits))
       ELSE Put(Put(d0, 193, limit_value(r.f.reverb, ByteLimits)),
                194, limit_value(r.f.filter, ByteLimits))

\* _apply_gate
apply_gate(data, g) ==
    Put(Put(Put(data, 223, on_off_value(g.f.on)),
            209, limit_value(g.f.threshold, ByteLimits)),
        210, limit_value(g.f.release, ByteLimits))

\* _state_to_data
state_to_data(state) ==
    LET d0 == [i \in 0..(THR_SYSEX_SIZE - 1) |-> 0]
        d1 == apply_name(d0, state.f.name)
        d2 == apply_amp(d1, state.f.amp)
        d3 == apply_cab(d2, state.f.cab)
        d4 == apply_compressor(d3, state.f.compressor)
        d5 == apply_modulation(d4, state.f.modulation)
        d6 == apply_delay(d5, state.f.delay)
        d7 == apply_reverb(d6, state.f.reverb)
    IN apply_gate(d7, state.f.gate)

\* to_text_settings: what the line renderers are handed, i.e. the parameter
\* block and the Edited / Stored lines (present only when the flag is set)
to_text_settings(state) ==
    [data |-> state_to_data(state),
     edited |-> state.f.edited,
     stored |-> state.f.stored]

-----------------------------------------------------------------------------
(* Text settings parser (state.py, from_text_settings and its helpers)       *)
(* A tokenised line is what extract_settings returns: the setting, the value *)
(* list and the attribute dict, here the sequence of its (key, value) items  *)
(* in insertion order.                                                       *)

\* key in values
HasKey(values, key) == \E i \in 1..Len(values) : values[i].k = key

\* values[key]
Lookup(values, key) == values[CHOOSE i \in 1..Len(values) : values[i].k = key].v

\* _parse_on_off
parse_on_off(values) ==
    IF HasKey(values, "on") THEN BoolV(TRUE)
    ELSE IF HasKey(values, "off") THEN BoolV(FALSE)
    ELSE None

\* _first_key
first_key(values) == IF values = <<>> THEN None ELSE StrV(values[1].k)

\* _first_match
first_match(values, options) ==
    LET hit(i) == \E j \in 1..Len(options) : LowerStr(options[j]) = values[i].k
    IN IF \E i \in 1..Len(values) : hit(i)
       THEN LET i == CHOOSE i \in 1..Len(values) :
                        hit(i) /\ \A h \in 1..(i - 1) : ~ hit(h)
            IN StrV(options[CHOOSE j \in 1..Len(options) :
                               LowerStr(options[j]) = values[i].k])
       ELSE None

\* _value_or_key
value_or_key(values, key) ==
    IF HasKey(values, key)
    THEN IF Lookup(values, key) = None THEN StrV(key) ELSE Lookup(values, key)
    ELSE None

\* _canonical_option
canonical_option(value, options) ==
    IF ~ Truthy(value) THEN None
    ELSE IF \E j \in 1..Len(options) : LowerStr(options[j]) = LowerStr(value.sv)
         THEN StrV(options[CHOOSE j \in 1..Len(options) :
                              /\ LowerStr(options[j]) = LowerStr(value.sv)
                              /\ \A h \in 1..(j - 1) :
                                    LowerStr(options[h]) # LowerStr(value.sv)])
         ELSE value

\* _merge_bool
merge_bool(existing, incoming) == IF incoming # None THEN incoming ELSE existing

\* key.replace(' ', '_') for the attribute keys of the text form
FieldOfKey(key) ==
    CASE key = "high cut" -> "high_cut" [] key = "low cut" -> "low_cut"
      [] key = "high ratio" -> "high_ratio" [] key = "low ratio" -> "low_ratio"
      [] OTHER -> key

RECURSIVE assign_int_fields(_, _, _)
\* _assign_int_fields: the target record after the loop over keys
assign_int_fields(target, values, keys) ==
    IF keys = <<>> THEN target
    ELSE assign_int_fields(
             IF HasKey(values, Head(keys))
             THEN [target EXCEPT !.f[FieldOfKey(Head(keys))] = Lookup(values, Head(keys))]
             ELSE target,
             values, Tail(keys))

\* the section's record with on merged and, when a kind name is among the
\* keys, kind assigned
WithOnAndKind(section, values, kind) ==
    LET s1 == [section EXCEPT !.f.on = merge_bool(section.f.on, parse_on_off(values))]
    IN IF Truthy(kind) THEN [s1 EXCEPT !.f.kind = kind] ELSE s1

\* the body of the loop of from_text_settings for one tokenised line
parse_line(state, line) ==
    LET setting == line.setting
        values == line.values
    IN IF setting = "" THEN state
       \* valuelist.strip(): the value lists of the model carry no outer blanks
       ELSE IF setting = "name" THEN [state EXCEPT !.f.name = StrV(line.valuelist)]
       ELSE IF setting \in {"edited", "edit"} THEN [state EXCEPT !.f.edited = parse_on_off(values)]
       ELSE IF setting = "stored" THEN [state EXCEPT !.f.stored = parse_on_off(values)]
       ELSE IF setting = "amp"
            THEN [state EXCEPT !.f.amp.f.model = canonical_option(first_key(values), THR10_AMP_NAMES)]
       ELSE IF setting = "control"
            THEN [state EXCEPT !.f.amp = assign_int_fields(@, values,
                                   <<"gain", "master", "bass", "middle", "treble">>)]
       ELSE IF setting = "cab"
            THEN [state EXCEPT !.f.cab.f.model = canonical_option(first_key(values), THR10_CAB_NAMES)]
       ELSE IF setting = "compressor"
            THEN LET c1 == WithOnAndKind(state.f.compressor, values,
                                         first_match(values, THR10_COMPRESSOR_NAMES))
                     c2 == assign_int_fields(c1, values,
                               <<"sustain", "output", "threshold", "attack", "release">>)
                 IN [state EXCEPT !.f.compressor =
                        [c2 EXCEPT !.f.ratio = canonical_option(value_or_key(values, "ratio"),
                                                                THR10_RATIO_NAMES),
                                   !.f.knee = canonical_option(value_or_key(values, "knee"),
                                                               THR10_KNEE_NAMES)]]
       ELSE IF setting = "modulation"
            THEN [state EXCEPT !.f.modulation =
                     assign_int_fields(
                         WithOnAndKind(@, values, first_match(values, THR10_MODULATION_NAMES)),
                         values,
                         <<"speed", "depth", "mix", "manual", "feedback", "spread", "freq">>)]
       ELSE IF setting = "delay"
            THEN [state EXCEPT !.f.delay =
                     assign_int_fields(WithOnAndKind(@, values, None), values,
                         <<"time", "feedback", "high cut", "low cut", "level">>)]
       ELSE IF setting = "reverb"
            THEN [state EXCEPT !.f.reverb =
                     assign_int_fields(
                         WithOnAndKind(@, values, first_match(values, THR10_REVERB_NAMES)),
                         values,
                         <<"time", "pre", "low cut", "high cut", "high ratio", "low ratio",
                           "level", "reverb", "filter">>)]
       ELSE IF setting = "gate"
            THEN [state EXCEPT !.f.gate =
                     assign_int_fields(WithOnAndKind(@, values, None), values,
                         <<"threshold", "release">>)]
       ELSE state

-----------------------------------------------------------------------------
(* Synchronisation controller (controller.py)                                *)

\* _last_edit_time = None
NoTime == -1

\* timeout_s = None
TimeoutNone == -1

\* debounce_seconds = 0.3 and poll_interval = 0.05, in ticks of 0.05 s
DebounceTicks == 6

PollTicks == 1

\* _write_state: the writes it issues on the transport.  The rendered lines
\* always include the control line, so the payload is never empty.
write_state(state) == <<to_text_settings(state)>>

\* _detect_conflicts that drops a path when staged and device agree on it
detect_conflicts_disagreeing(live, staged, device_state) ==
    LET staged_diffs == diff_state(live, staged)
        device_diffs == diff_state(live, device_state)
    IN [path \in {q \in (DOMAIN staged_diffs) \cap (DOMAIN device_diffs) :
                    staged_diffs[q].staged # device_diffs[q].staged} |->
          [live |-> staged_diffs[path].live,
           staged |-> staged_diffs[path].staged,
           device |-> device_diffs[path].staged]]

\* _detect_conflicts run after live has been replaced by the device state
detect_conflicts_after_replace(live, staged, device_state) ==
    LET staged_diffs == diff_state(device_state, staged)
        device_diffs == diff_state(device_state, device_state)
    IN IF DOMAIN staged_diffs = {} \/ DOMAIN device_diffs = {} THEN EmptyDict
       ELSE [path \in {q \in DOMAIN staged_diffs : q \in DOMAIN device_diffs} |->
               [live |-> staged_diffs[path].live,
                staged |-> staged_diffs[path].staged,
                device |-> device_diffs[path].staged]]

\* _detect_conflicts: the new conflicts map
detect_conflicts(live, staged, device_state) ==
    LET staged_diffs == diff_state(live, staged)
        device_diffs == diff_state(live, device_state)
    IN IF DOMAIN staged_diffs = {} \/ DOMAIN device_diffs = {} THEN EmptyDict
       ELSE [path \in {q \in DOMAIN staged_diffs : q \in DOMAIN device_diffs} |->
               [live |-> staged_diffs[path].live,
                staged |-> staged_diffs[path].staged,
                device |-> device_diffs[path].staged]]

\* apply_staged that writes the staged overlay instead of the merged state
apply_staged_writes_staged(live, staged, confl) ==
    IF DOMAIN diff_state(live, staged) = {}
    THEN [ret |-> "False", live |-> live, staged |-> staged,
          conflicts |-> confl, pending |-> FALSE, writes |-> <<>>]
    ELSE [ret |-> "True", live |-> apply_state(live, staged), staged |-> THR10State,
          conflicts |-> EmptyDict, pending |-> FALSE,
          writes |-> write_state(staged)]

\* apply_staged that returns early without clearing pending_apply
apply_staged_keeps_pending(live, staged, confl) ==
    IF DOMAIN diff_state(live, staged) = {}
    THEN [ret |-> "False", live |-> live, staged |-> staged,
          conflicts |-> confl, pending |-> TRUE, writes |-> <<>>]
    ELSE [ret |-> "True", live |-> apply_state(live, staged), staged |-> THR10State,
          conflicts |-> EmptyDict, pending |-> FALSE,
          writes |-> write_state(apply_state(live, staged))]

\* apply_staged: return value, the fields after the call and the writes issued
apply_staged(live, staged, confl) ==
    LET diffs == diff_state(live, staged)
        merged == apply_state(live, staged)
    IN IF DOMAIN diffs = {}
       THEN [ret |-> "False", live |-> live, staged |-> staged,
             conflicts |-> confl, pending |-> FALSE, writes |-> <<>>]
       ELSE [ret |-> "True", live |-> merged, staged |-> THR10State,
             conflicts |-> EmptyDict, pending |-> FALSE,
             writes |-> write_state(merged)]

\* apply_staged that clears pending_apply before it writes
apply_staged_write_fails_clears_pending(live, staged, confl, pending) ==
    [ret |-> "IOError", live |-> live, staged |-> staged,
     conflicts |-> confl, pending |-> FALSE, writes |-> <<>>]

\* apply_staged with a non-empty diff when write_data_to_outfile raises: the
\* exception leaves _write_state and apply_staged before any field is assigned
apply_staged_write_fails(live, staged, confl, pending) ==
    [ret |-> "IOError", live |-> live, staged |-> staged,
     conflicts |-> confl, pending |-> pending, writes |-> <<>>]

\* the dataclass each section field of THR10State is declared with
SectionClasses ==
    [amp |-> "AmpState", cab |-> "CabState", compressor |-> "CompressorState",
     modulation |-> "ModulationState", delay |-> "DelayState",
     reverb |-> "ReverbState", gate |-> "GateState"]

\* _state_to_data runs through: each _apply_* reads the fields of its section,
\* which raises AttributeError on a value that is no section record
encodes(state) == \A s \in DOMAIN SectionClasses : is_dataclass(state.f[s])

\* apply_staged with a non-empty diff when to_text_settings raises: the
\* exception leaves _write_state and apply_staged before any field is assigned
apply_staged_encode_fails(live, staged, confl, pending) ==
    [ret |-> "AttributeError", live |-> live, staged |-> staged,
     conflicts |-> confl, pending |-> pending, writes |-> <<>>]

\* discard_staged that forgets to empty conflicts
discard_staged_keeps_conflicts(staged, confl, pending) ==
    [staged |-> THR10State, conflicts |-> confl, pending |-> FALSE]

\* discard_staged: the fields after the call
discard_staged(staged, confl, pending) ==
    [staged |-> THR10State, conflicts |-> EmptyDict, pending |-> FALSE]

\* flush_debounced that applies whenever an edit is pending, window or not
flush_applies_ignores_window(pending, force, last_edit, clock) == pending

\* flush_debounced that still waits when exactly the debounce window has passed
flush_applies_after_window(pending, force, last_edit, clock) ==
    IF ~ pending THEN FALSE
    ELSE IF force THEN TRUE
    ELSE IF last_edit = NoTime THEN FALSE
    ELSE IF clock - last_edit <= DebounceTicks THEN FALSE
    ELSE TRUE

\* flush_debounced: whether the call goes on to apply_staged
flush_applies(pending, force, last_edit, clock) ==
    IF ~ pending THEN FALSE
    ELSE IF force THEN TRUE
    ELSE IF last_edit = NoTime THEN FALSE
    ELSE IF clock - last_edit < DebounceTicks THEN FALSE
    ELSE TRUE

\* the polling loop that goes on when exactly the timeout has elapsed
poll_gives_up_after_timeout(timeout_s, clock, start) ==
    IF timeout_s = TimeoutNone THEN TRUE
    ELSE clock - start > timeout_s

\* refresh_from_device: whether the polling loop is left after an extract
\* that returned nothing
poll_gives_up(timeout_s, clock, start) ==
    IF timeout_s = TimeoutNone THEN TRUE
    ELSE clock - start >= timeout_s

-----------------------------------------------------------------------------
(* Inputs of the model *)

P_amp_gain == <<"a","m","p",".","g","a","i","n">>

P_amp_gain_raw == <<" ","A","m","p","/","G","A","I","N"," ">>

P_gate_on == <<"g","a","t","e",".","o","n">>

P_empty == <<>>

P_dots == <<".","/">>

P_unknown_param == <<"a","m","p",".","g","a","i","n","s">>

P_unknown_group == <<"a","m","p","s",".","g","a","i","n">>

P_below_leaf == <<"a","m","p",".","g","a","i","n",".","x">>

P_doc == <<"a","m","p",".","_","_","d","o","c","_","_">>

\* paths with a segment that is no field at its level, or with no segment
MalformedPaths == {P_empty, P_dots, P_unknown_param, P_unknown_group, P_below_leaf, P_doc}

P_amp == <<"a","m","p">>

P_edited == <<"e","d","i","t","e","d">>

\* set_param calls that include paths of a single segment
SectionEditInputs ==
    {[path |-> P_amp_gain, value |-> IntV(7)],
     [path |-> P_edited, value |-> BoolV(TRUE)],
     [path |-> P_amp, value |-> IntV(5)]}

\* the (path, value) pairs set_param is called with
EditInputs ==
    {[path |-> P_amp_gain, value |-> v] : v \in {None, IntV(7), IntV(9)}}
    \cup {[path |-> P_amp_gain_raw, value |-> IntV(7)],
          [path |-> P_gate_on, value |-> BoolV(TRUE)]}
    \cup {[path |-> q, value |-> IntV(7)] : q \in MalformedPaths}

\* the states a dump of the device decodes to
DeviceStates ==
    {WithLeaf(THR10State, "amp", "gain", IntV(5)),
     WithLeaf(THR10State, "amp", "gain", IntV(7)),
     WithLeaf(WithLeaf(THR10State, "amp", "gain", IntV(9)), "gate", "on", BoolV(FALSE))}

\* the timeout_s arguments of refresh_from_device under a fixed clock
Timeouts == {TimeoutNone, 0}

\* inputs of the runs with an advancing clock
TimedEditInputs == {[path |-> P_amp_gain, value |-> IntV(7)],
                    [path |-> P_gate_on, value |-> BoolV(TRUE)]}

TimedDeviceStates == {WithLeaf(THR10State, "amp", "gain", IntV(9))}

TimedTimeouts == {TimeoutNone, 0, 2}

-----------------------------------------------------------------------------
(* State machine *)

NoIO == [requests |-> 0, extracts |-> 0, writes |-> <<>>]

\* pre: for apply_staged, whether the call directly follows a successful
\* refresh that recorded conflicts; for discard_staged, whether the call
\* found staged edits, conflicts and a pending apply
NoCall == [op |-> "init", ret |-> "-", path |-> <<>>, value |-> None,
           force |-> FALSE, applied |-> FALSE, timeout |-> TimeoutNone,
           pre |-> FALSE]

\* no state.py function is under examination
NoInput == [op |-> "none"]

NoOutput == [op |-> "none"]

\* THR10Controller.__init__
ControllerInit ==
    /\ live_state = THR10State
    /\ staged_state = THR10State
    /\ conflicts = EmptyDict
    /\ last_edit_time = NoTime
    /\ pending_apply = FALSE
    /\ now = 0
    /\ pc = "idle"
    /\ rf = [start |-> 0, timeout |-> TimeoutNone]
    /\ io = NoIO
    /\ call = NoCall

Init ==
    /\ ControllerInit
    /\ input = NoInput
    /\ output = NoOutput

\* the injected clock advances between two calls
Tick ==
    /\ pc = "idle"
    /\ now < MaxClock
    /\ now' = now + 1
    /\ call' = [NoCall EXCEPT !.op = "tick"]
    /\ io' = NoIO
    /\ UNCHANGED <<live_state, staged_state, conflicts, last_edit_time, pending_apply, pc, rf, input, output>>

\* set_param(path, value)
SetParam(path, value) ==
    /\ pc = "idle"
    /\ \E r \in {set_state_value(staged_state, path, value)} :
          /\ staged_state' = r.state
          /\ pending_apply' = IF r.err = "" THEN TRUE ELSE pending_apply
          /\ last_edit_time' = IF r.err = "" THEN now ELSE last_edit_time
          /\ call' = [NoCall EXCEPT !.op = "set_param", !.path = path, !.value = value,
                                    !.ret = IF r.err = "" THEN "None" ELSE r.err]
    /\ io' = NoIO
    /\ UNCHANGED <<live_state, conflicts, now, pc, rf, input, output>>

\* apply_staged()
ApplyStaged ==
    /\ pc = "idle"
    /\ \E r \in {apply_staged(live_state, staged_state, conflicts)} :
          /\ live_state' = r.live
          /\ staged_state' = r.staged
          /\ conflicts' = r.conflicts
          /\ pending_apply' = r.pending
          /\ io' = [NoIO EXCEPT !.writes = r.writes]
          /\ call' = [NoCall EXCEPT !.op = "apply_staged", !.ret = r.ret, !.applied = TRUE,
                                    !.pre = /\ call.op = "refresh_from_device"
                                            /\ call.ret = "state"
                                            /\ conflicts # EmptyDict]
    /\ UNCHANGED <<last_edit_time, now, pc, rf, input, output>>

\* discard_staged()
DiscardStaged ==
    /\ pc = "idle"
    /\ \E r \in {discard_staged(staged_state, conflicts, pending_apply)} :
          /\ staged_state' = r.staged
          /\ conflicts' = r.conflicts
          /\ pending_apply' = r.pending
    /\ io' = NoIO
    /\ call' = [NoCall EXCEPT !.op = "discard_staged", !.ret = "None",
                              !.pre = /\ staged_state # THR10State
                                      /\ conflicts # EmptyDict
                                      /\ pending_apply]
    /\ UNCHANGED <<live_state, last_edit_time, now, pc, rf, input, output>>

\* flush_debounced(force)
FlushDebounced(force) ==
    /\ pc = "idle"
    /\ IF flush_applies(pending_apply, force, last_edit_time, now)
       THEN \E r \in {apply_staged(live_state, staged_state, conflicts)} :
               /\ live_state' = r.live
               /\ staged_state' = r.staged
               /\ conflicts' = r.conflicts
               /\ pending_apply' = r.pending
               /\ io' = [NoIO EXCEPT !.writes = r.writes]
               /\ call' = [NoCall EXCEPT !.op = "flush_debounced", !.force = force,
                                         !.ret = r.ret, !.applied = TRUE]
       ELSE /\ io' = NoIO
            /\ call' = [NoCall EXCEPT !.op = "flush_debounced", !.force = force,
                                      !.ret = "False"]
            /\ UNCHANGED <<live_state, staged_state, conflicts, pending_apply>>
    /\ UNCHANGED <<last_edit_time, now, pc, rf, input, output>>

\* refresh_from_device(timeout_s=timeout): the settings request and the
\* reading of the clock before the loop
RefreshStart(timeout) ==
    /\ pc = "idle"
    /\ now + (IF timeout = TimeoutNone THEN 0 ELSE timeout) + PollTicks <= MaxClock
    /\ pc' = "extract"
    /\ rf' = [start |-> now, timeout |-> timeout]
    /\ io' = [NoIO EXCEPT !.requests = 1]
    /\ call' = [NoCall EXCEPT !.op = "refresh_from_device", !.ret = "", !.timeout = timeout]
    /\ UNCHANGED <<live_state, staged_state, conflicts, last_edit_time, pending_apply, now, input, output>>

\* extract_dump() returns a dump: decode, detect conflicts, replace live
RefreshExtractDump(device_state) ==
    /\ pc = "extract"
    /\ conflicts' = detect_conflicts(live_state, staged_state, device_state)
    /\ live_state' = device_state
    /\ pc' = "idle"
    /\ io' = [io EXCEPT !.extracts = @ + 1]
    /\ call' = [call EXCEPT !.ret = "state"]
    /\ UNCHANGED <<staged_state, last_edit_time, pending_apply, now, rf, input, output>>

\* extract_dump() returns nothing: leave the loop or go to sleep
RefreshExtractNothing ==
    /\ pc = "extract"
    /\ io' = [io EXCEPT !.extracts = @ + 1]
    /\ IF poll_gives_up(rf.timeout, now, rf.start)
       THEN /\ pc' = "idle"
            /\ call' = [call EXCEPT !.ret = "None"]
       ELSE /\ pc' = "sleep"
            /\ call' = call
    /\ UNCHANGED <<live_state, staged_state, conflicts, last_edit_time, pending_apply, now, rf, input, output>>

\* time.sleep(poll_interval): the clock has advanced when the loop goes on
RefreshSleep ==
    /\ pc = "sleep"
    /\ now' = now + PollTicks
    /\ pc' = "extract"
    /\ UNCHANGED <<live_state, staged_state, conflicts, last_edit_time, pending_apply, rf, io, call, input, output>>

\* apply_staged() when the transport write raises
ApplyStagedWriteFails ==
    /\ pc = "idle"
    /\ DOMAIN diff_state(live_state, staged_state) # {}
    /\ \E r \in {apply_staged_write_fails(live_state, staged_state, conflicts, pending_apply)} :
          /\ live_state' = r.live
          /\ staged_state' = r.staged
          /\ conflicts' = r.conflicts
          /\ pending_apply' = r.pending
          /\ io' = [NoIO EXCEPT !.writes = r.writes]
          /\ call' = [NoCall EXCEPT !.op = "apply_staged", !.ret = r.ret, !.applied = TRUE]
    /\ UNCHANGED <<last_edit_time, now, pc, rf, input, output>>

\* flush_debounced(force) that goes on to apply_staged when the transport
\* write raises
FlushDebouncedWriteFails(force) ==
    /\ pc = "idle"
    /\ flush_applies(pending_apply, force, last_edit_time, now)
    /\ DOMAIN diff_state(live_state, staged_state) # {}
    /\ \E r \in {apply_staged_write_fails(live_state, staged_state, conflicts, pending_apply)} :
          /\ live_state' = r.live
          /\ staged_state' = r.staged
          /\ conflicts' = r.conflicts
          /\ pending_apply' = r.pending
          /\ io' = [NoIO EXCEPT !.writes = r.writes]
          /\ call' = [NoCall EXCEPT !.op = "flush_debounced", !.force = force,
                                    !.ret = r.ret, !.applied = TRUE]
    /\ UNCHANGED <<last_edit_time, now, pc, rf, input, output>>

\* refresh_from_device(timeout_s=timeout) when request_current_settings raises
RefreshRequestFails(timeout) ==
    /\ pc = "idle"
    /\ io' = NoIO
    /\ call' = [NoCall EXCEPT !.op = "refresh_from_device", !.ret = "IOError",
                              !.timeout = timeout]
    /\ UNCHANGED <<live_state, staged_state, conflicts, last_edit_time, pending_apply,
                   now, pc, rf, input, output>>

\* extract_dump() raises inside the polling loop
RefreshExtractFails ==
    /\ pc = "extract"
    /\ pc' = "idle"
    /\ io' = [io EXCEPT !.extracts = @ + 1]
    /\ call' = [call EXCEPT !.ret = "IOError"]
    /\ UNCHANGED <<live_state, staged_state, conflicts, last_edit_time, pending_apply,
                   now, rf, input, output>>

\* apply_staged() whose merged state, if one is written, encodes
ApplyStagedEncodes ==
    /\ \/ DOMAIN diff_state(live_state, staged_state) = {}
       \/ encodes(apply_state(live_state, staged_state))
    /\ ApplyStaged

\* apply_staged() when encoding the merged state raises
ApplyStagedEncodeFails ==
    /\ pc = "idle"
    /\ DOMAIN diff_state(live_state, staged_state) # {}
    /\ ~ encodes(apply_state(live_state, staged_state))
    /\ \E r \in {apply_staged_encode_fails(live_state, staged_state, conflicts, pending_apply)} :
          /\ live_state' = r.live
          /\ staged_state' = r.staged
          /\ conflicts' = r.conflicts
          /\ pending_apply' = r.pending
          /\ io' = [NoIO EXCEPT !.writes = r.writes]
          /\ call' = [NoCall EXCEPT !.op = "apply_staged", !.ret = r.ret, !.applied = TRUE]
    /\ UNCHANGED <<last_edit_time, now, pc, rf, input, output>>

\* the controller driven with a fixed injected clock: every call reads the
\* same time, so only timeouts of None and 0 end the polling loop
Next ==
    \/ \E e \in EditInputs : SetParam(e.path, e.value)
    \/ ApplyStaged
    \/ DiscardStaged
    \/ \E force \in BOOLEAN : FlushDebounced(force)
    \/ \E t \in Timeouts : RefreshStart(t)
    \/ \E d \in DeviceStates : RefreshExtractDump(d)
    \/ RefreshExtractNothing

Spec == Init /\ [][Next]_vars

\* the controller driven with an advancing clock
TimedNext ==
    \/ Tick
    \/ \E e \in TimedEditInputs : SetParam(e.path, e.value)
    \/ ApplyStaged
    \/ DiscardStaged
    \/ \E force \in BOOLEAN : FlushDebounced(force)
    \/ \E t \in TimedTimeouts : RefreshStart(t)
    \/ \E d \in TimedDeviceStates : RefreshExtractDump(d)
    \/ RefreshExtractNothing
    \/ RefreshSleep

TimedSpec == Init /\ [][TimedNext]_vars

RefreshStep ==
    \/ \E d \in TimedDeviceStates : RefreshExtractDump(d)
    \/ RefreshExtractNothing
    \/ RefreshSleep

\* a running refresh_from_device keeps executing its polling loop
FairTimedSpec == TimedSpec /\ WF_vars(RefreshStep)

\* the controller over a transport whose calls may raise (fixed clock)
FaultyNext ==
    \/ \E e \in TimedEditInputs : SetParam(e.path, e.value)
    \/ ApplyStaged
    \/ ApplyStagedWriteFails
    \/ DiscardStaged
    \/ \E force \in BOOLEAN : FlushDebounced(force)
    \/ \E force \in BOOLEAN : FlushDebouncedWriteFails(force)
    \/ \E t \in Timeouts : RefreshStart(t)
    \/ \E t \in Timeouts : RefreshRequestFails(t)
    \/ \E d \in DeviceStates : RefreshExtractDump(d)
    \/ RefreshExtractNothing
    \/ RefreshExtractFails

FaultySpec == Init /\ [][FaultyNext]_vars

\* the controller edited through paths of one and of two segments
SectionEditNext ==
    \/ \E e \in SectionEditInputs : SetParam(e.path, e.value)
    \/ ApplyStagedEncodes
    \/ ApplyStagedEncodeFails
    \/ DiscardStaged
    \/ RefreshStart(TimeoutNone)
    \/ \E d \in DeviceStates : RefreshExtractDump(d)
    \/ RefreshExtractNothing

SectionEditSpec == Init /\ [][SectionEditNext]_vars

TypeOK ==
    /\ pc \in {"idle", "extract", "sleep"}
    /\ pending_apply \in BOOLEAN
    /\ now \in 0..MaxClock
    /\ last_edit_time \in {NoTime} \cup 0..MaxClock
    /\ is_dataclass(live_state) /\ is_dataclass(staged_state)

-----------------------------------------------------------------------------
(* diff_state and apply_state examined on their own: the arguments are drawn  *)
(* at the start, each step calls one of the functions on them                 *)

SnapshotGains == {None, IntV(5), IntV(7)}

SnapshotFlags == {None, BoolV(TRUE), BoolV(FALSE)}

\* live snapshots: every section is a record, as from_text_settings and
\* apply_state build them
LiveSnapshots ==
    {WithLeaf(WithLeaf(THR10State, "amp", "gain", g), "gate", "on", o) :
        g \in SnapshotGains, o \in SnapshotFlags}

\* staged overlays: as live, or with the amp section absent altogether
StagedSnapshots ==
    LiveSnapshots
    \cup {[WithLeaf(THR10State, "gate", "on", o) EXCEPT !.f.amp = None] : o \in SnapshotFlags}

DiffMergeInit ==
    /\ ControllerInit
    /\ input \in {[op |-> "diff_merge", live |-> L, staged |-> S] :
                     L \in LiveSnapshots, S \in StagedSnapshots}
    /\ output = NoOutput

ControllerVars == <<live_state, staged_state, conflicts, last_edit_time, pending_apply,
                    now, pc, rf, io, call>>

\* diff_state(live, staged)
DiffState ==
    /\ input.op = "diff_merge"
    /\ output' = [op |-> "diff_state", value |-> diff_state(input.live, input.staged)]
    /\ UNCHANGED <<input, ControllerVars>>

\* apply_state(live, staged)
ApplyState ==
    /\ input.op = "diff_merge"
    /\ output' = [op |-> "apply_state", value |-> apply_state(input.live, input.staged)]
    /\ UNCHANGED <<input, ControllerVars>>

\* diff_state(live, apply_state(live, staged))
DiffLiveMerged ==
    /\ input.op = "diff_merge"
    /\ output' = [op |-> "diff_live_merged",
                  value |-> diff_state(input.live, apply_state(input.live, input.staged))]
    /\ UNCHANGED <<input, ControllerVars>>

\* diff_state(apply_state(live, staged), staged)
DiffMergedStaged ==
    /\ input.op = "diff_merge"
    /\ output' = [op |-> "diff_merged_staged",
                  value |-> diff_state(apply_state(input.live, input.staged), input.staged)]
    /\ UNCHANGED <<input, ControllerVars>>

DiffMergeNext ==
    \/ DiffState
    \/ ApplyState
    \/ DiffLiveMerged
    \/ DiffMergedStaged

DiffMergeSpec == DiffMergeInit /\ [][DiffMergeNext]_vars

-----------------------------------------------------------------------------
(* from_text_settings examined on its own: one step per line of the loop     *)

Item(key, value) == [k |-> key, v |-> value]

TokenLine(setting, values) == [setting |-> setting, valuelist |-> "", values |-> values]

\* the tokenised lines the parser is fed
TextLines ==
    {TokenLine("compressor", <<Item("on", None), Item("rack", None),
                               Item("threshold", IntV(300))>>),
     TokenLine("compressor", <<Item("ratio", StrV("1:4"))>>),
     TokenLine("compressor", <<Item("knee", StrV("hard"))>>),
     TokenLine("compressor", <<Item("off", None), Item("attack", IntV(20))>>),
     TokenLine("control", <<Item("gain", IntV(7))>>),
     TokenLine("control", <<Item("master", IntV(9))>>),
     TokenLine("modulation", <<Item("on", None), Item("flanger", None),
                               Item("speed", IntV(10))>>),
     TokenLine("modulation", <<Item("depth", IntV(5))>>),
     TokenLine("delay", <<Item("on", None), Item("high cut", IntV(300))>>),
     TokenLine("delay", <<Item("level", IntV(4))>>),
     TokenLine("reverb", <<Item("off", None), Item("spring", None)>>),
     TokenLine("reverb", <<Item("filter", IntV(6))>>),
     TokenLine("gate", <<Item("on", None), Item("threshold", IntV(5))>>),
     TokenLine("gate", <<Item("release", IntV(3))>>),
     TokenLine("", <<>>),
     [setting |-> "name", valuelist |-> "AB", values |-> <<>>]}

\* state = THR10State() before the loop
ParseInit ==
    /\ ControllerInit
    /\ input = [op |-> "parse", n |-> 0, line |-> TokenLine("", <<>>)]
    /\ output = [op |-> "from_text_settings", value |-> THR10State]

\* one pass of the loop over lines
ParseLine(line) ==
    /\ input.op = "parse"
    /\ input.n < MaxLines
    /\ input' = [op |-> "parse", n |-> input.n + 1, line |-> line]
    /\ output' = [op |-> "from_text_settings", value |-> parse_line(output.value, line)]
    /\ UNCHANGED ControllerVars

ParseNext == \E line \in TextLines : ParseLine(line)

ParseSpec == ParseInit /\ [][ParseNext]_vars

-----------------------------------------------------------------------------
(* _state_to_data examined on its own: the snapshot is drawn at the start    *)

\* a value or nothing
Opt(v) == {None, v}

\* snapshots that differ in the five on flags
FlagStates ==
    {[THR10State EXCEPT !.f.compressor.f.on = c, !.f.modulation.f.on = m,
                        !.f.delay.f.on = d, !.f.reverb.f.on = r, !.f.gate.f.on = g] :
        c \in SnapshotFlags, m \in SnapshotFlags, d \in SnapshotFlags,
        r \in SnapshotFlags, g \in SnapshotFlags}

\* snapshots that differ in the compressor section (700 is above the
\* threshold's maximum)
CompressorStates ==
    {[THR10State EXCEPT !.f.compressor.f.on = BoolV(TRUE),
                        !.f.compressor.f.kind = k, !.f.compressor.f.sustain = su,
                        !.f.compressor.f.output = ou, !.f.compressor.f.threshold = th,
                        !.f.compressor.f.attack = at, !.f.compressor.f.release = re,
                        !.f.compressor.f.ratio = ra, !.f.compressor.f.knee = kn] :
        k \in {None, StrV("Stomp"), StrV("Rack")},
        su \in Opt(IntV(30)), ou \in Opt(IntV(50)),
        th \in {None, IntV(300), IntV(700)},
        at \in Opt(IntV(20)), re \in Opt(IntV(10)),
        ra \in Opt(StrV("1:4")), kn \in Opt(StrV("hard"))}

\* snapshots that differ in the modulation section
ModulationStates ==
    {[THR10State EXCEPT !.f.modulation.f.kind = k, !.f.modulation.f.depth = IntV(70),
                        !.f.modulation.f.speed = sp, !.f.modulation.f.mix = mi,
                        !.f.modulation.f.manual = ma, !.f.modulation.f.feedback = fb,
                        !.f.modulation.f.spread = sr, !.f.modulation.f.freq = fr] :
        k \in {None, StrV("Chorus"), StrV("Flanger"), StrV("Tremelo"), StrV("Phaser")},
        sp \in Opt(IntV(60)), mi \in Opt(IntV(50)), ma \in Opt(IntV(20)),
        fb \in Opt(IntV(40)), sr \in Opt(IntV(10)), fr \in Opt(IntV(30))}

\* snapshots that differ in the reverb section
ReverbStates ==
    {[THR10State EXCEPT !.f.reverb.f.kind = k, !.f.reverb.f.time = ti,
                        !.f.reverb.f.level = le, !.f.reverb.f.reverb = rv,
                        !.f.reverb.f.filter = fi] :
        k \in {None, StrV("Hall"), StrV("Room"), StrV("Plate"), StrV("Spring")},
        ti \in Opt(IntV(300)), le \in Opt(IntV(5)),
        rv \in Opt(IntV(10)), fi \in Opt(IntV(20))}

CodecStates == FlagStates \cup CompressorStates \cup ModulationStates \cup ReverbStates

CodecInit ==
    /\ ControllerInit
    /\ input \in {[op |-> "encode", state |-> st] : st \in CodecStates}
    /\ output = NoOutput

\* _state_to_data(state)
StateToData ==
    /\ input.op = "encode"
    /\ output.op = "none"
    /\ output' = [op |-> "state_to_data", data |-> state_to_data(input.state)]
    /\ UNCHANGED <<input, ControllerVars>>

CodecNext == StateToData

CodecSpec == CodecInit /\ [][CodecNext]_vars

-----------------------------------------------------------------------------
(* Reading a state leaf by leaf, independently of diff and merge *)

RECURSIVE LeafEntries(_, _)
\* every leaf of a state tree with its dot-path
LeafEntries(x, path) ==
    IF is_dataclass(x)
    THEN UNION { LeafEntries(x.f[n], NextPath(path, n)) : n \in fields(x) }
    ELSE {[path |-> path, value |-> x]}

LeafPaths == {e.path : e \in LeafEntries(THR10State, "")}

ValueAt(state, p) == (CHOOSE e \in LeafEntries(state, "") : e.path = p).value

\* the value a snapshot holds at a leaf path: None when the leaf or the
\* section it lies in is absent
LeafOrNone(state, p) ==
    LET es == {e \in LeafEntries(state, "") : e.path = p}
    IN IF es = {} THEN None ELSE (CHOOSE e \in es : TRUE).value

ControllerFields == <<live_state, staged_state, conflicts, last_edit_time, pending_apply>>

-----------------------------------------------------------------------------
(* Properties *)

\* C1: after a successful refresh_from_device with previous live L, staged S
\* and observed device state D, conflicts holds exactly the paths that are
\* both in diff(L,S) and in diff(L,D), each with L's, S's and D's value,
\* also when S and D agree there; it is empty when no path is in both.
C1_ConflictsAreCommonDiffs ==
    [][ (call'.op = "refresh_from_device" /\ call'.ret = "state") =>
          LET L == live_state
              S == staged_state
              D == live_state'
              both == (DOMAIN diff_state(L, S)) \cap (DOMAIN diff_state(L, D))
          IN conflicts' = [p \in both |-> [live |-> ValueAt(L, p),
                                           staged |-> ValueAt(S, p),
                                           device |-> ValueAt(D, p)]] ]_vars

\* the example of the specification: L.amp.gain=5, S.amp.gain=7, D.amp.gain=9
C1_Witness ==
    /\ call.op = "refresh_from_device" /\ call.ret = "state"
    /\ "amp.gain" \in DOMAIN conflicts
    /\ conflicts["amp.gain"] = [live |-> IntV(5), staged |-> IntV(7), device |-> IntV(9)]

\* C2: with a non-empty diff(live, staged), apply_staged writes the encoded
\* merge(live, staged) exactly once, adopts the merge as live, resets staged,
\* empties conflicts, clears pending_apply and returns true; it returns true
\* exactly when it wrote.
C2_ApplyWritesMerge ==
    [][ (call'.op = "apply_staged") =>
          /\ (call'.ret = "True") <=> (Len(io'.writes) > 0)
          /\ (DOMAIN diff_state(live_state, staged_state) # {}) =>
                /\ io'.writes = <<to_text_settings(apply_state(live_state, staged_state))>>
                /\ io'.requests = 0
                /\ live_state' = apply_state(live_state, staged_state)
                /\ staged_state' = THR10State
                /\ conflicts' = EmptyDict
                /\ pending_apply' = FALSE
                /\ call'.ret = "True" ]_vars

C2_Witness ==
    /\ call.op = "apply_staged" /\ call.ret = "True"
    /\ Len(io.writes) = 1
    /\ io.writes[1].data[129] = 7
    /\ io.writes[1].data[223] = 127
    /\ ValueAt(live_state, "amp.gain") = IntV(7)
    /\ ValueAt(live_state, "gate.on") = BoolV(FALSE)

\* C3: with an empty diff(live, staged), apply_staged writes nothing, raises
\* nothing, clears pending_apply, returns false and leaves live unchanged.
C3_ApplyNoChange ==
    [][ (call'.op = "apply_staged" /\ DOMAIN diff_state(live_state, staged_state) = {}) =>
          /\ io'.writes = <<>>
          /\ call'.ret = "False"
          /\ pending_apply' = FALSE
          /\ live_state' = live_state ]_vars

\* a no-change apply although staged holds an edit (the device already has it)
C3_Witness ==
    /\ call.op = "apply_staged" /\ call.ret = "False"
    /\ ValueAt(staged_state, "amp.gain") = IntV(7)
    /\ ValueAt(live_state, "amp.gain") = IntV(7)
    /\ ~ pending_apply

\* C4: conflicts never block an apply and staged wins: when apply_staged is
\* called right after a successful refresh that recorded conflicts, it
\* completes, and live then holds staged's value wherever staged had one and
\* the freshly observed device value everywhere else.
C4_StagedWinsOverConflicts ==
    [][ (/\ call.op = "refresh_from_device" /\ call.ret = "state"
         /\ conflicts # EmptyDict
         /\ call'.op = "apply_staged") =>
          /\ call'.ret \in {"True", "False"}
          /\ \A p \in LeafPaths :
                ValueAt(live_state', p) =
                    IF ValueAt(staged_state, p) # None
                    THEN ValueAt(staged_state, p) ELSE ValueAt(live_state, p) ]_vars

\* staged gain 7 has won over the device's 9; gate.on comes from the device
C4_Witness ==
    /\ call.op = "apply_staged" /\ call.pre /\ call.ret = "True"
    /\ ValueAt(live_state, "amp.gain") = IntV(7)
    /\ ValueAt(live_state, "gate.on") = BoolV(FALSE)

\* C5: after every apply_staged or discard_staged call the conflicts map is
\* empty.
C5_ConflictsDiscarded ==
    call.op \in {"apply_staged", "discard_staged"} => conflicts = EmptyDict

\* C6: discard_staged resets staged, empties conflicts, clears pending_apply,
\* does no transport request or write and leaves live unchanged.
C6_DiscardStaged ==
    [][ (call'.op = "discard_staged") =>
          /\ staged_state' = THR10State
          /\ conflicts' = EmptyDict
          /\ pending_apply' = FALSE
          /\ io' = NoIO
          /\ live_state' = live_state ]_vars

C6_Witness ==
    /\ call.op = "discard_staged" /\ call.pre
    /\ live_state # THR10State

\* C7: flush_debounced(force) goes on to apply_staged exactly when
\* pending_apply is set and (force, or clock - last_edit_time >= the debounce
\* window); otherwise it returns false, writes nothing and changes nothing.
\* With the 0.3 s window and an edit at t=0 that differs from live, a flush
\* at t=0.1 writes nothing and a flush at t=0.35 writes once and clears
\* pending_apply.
C7_FlushDebounced ==
    [][ (call'.op = "flush_debounced") =>
          LET due == /\ pending_apply
                     /\ \/ call'.force
                        \/ /\ last_edit_time # NoTime
                           /\ now - last_edit_time >= DebounceTicks
              example == /\ ~ call'.force /\ pending_apply /\ last_edit_time = 0
                         /\ DOMAIN diff_state(live_state, staged_state) # {}
          IN /\ call'.applied <=> due
             /\ ~ due => /\ call'.ret = "False"
                         /\ io'.writes = <<>>
                         /\ UNCHANGED ControllerFields
             /\ (example /\ now = 2) => io'.writes = <<>> /\ pending_apply'
             /\ (example /\ now = 7) => Len(io'.writes) = 1 /\ ~ pending_apply' ]_vars

\* an unforced flush exactly one debounce window after the edit has applied
C7_Witness ==
    /\ call.op = "flush_debounced" /\ ~ call.force /\ call.applied
    /\ call.ret = "True" /\ Len(io.writes) = 1
    /\ now - last_edit_time = DebounceTicks

\* C8: refresh_from_device with timeout None never returns the no-data
\* signal: it polls until a dump arrives.
C8_NoTimeoutPollsUntilData ==
    ~ (call.op = "refresh_from_device" /\ call.timeout = TimeoutNone /\ call.ret = "None")

\* C9: refresh_from_device with a finite timeout and no dump terminates and
\* returns the no-data signal, after one settings request and at least one
\* extract attempt, once clock - start >= timeout and not before, and leaves
\* live, staged, conflicts and pending_apply as they were.
C9_TimeoutReturnsNoData ==
    /\ [][ (call'.op = "refresh_from_device" /\ call'.ret # "state") =>
              UNCHANGED ControllerFields ]_vars
    /\ [][ (call'.op = "refresh_from_device" /\ call'.timeout # TimeoutNone
            /\ call.ret = "" /\ call'.ret = "None") =>
              /\ io'.requests = 1
              /\ io'.extracts >= 1
              /\ io'.writes = <<>>
              /\ now - rf.start >= rf.timeout ]_vars
    /\ [](pc = "sleep" => now - rf.start < rf.timeout)
    /\ [](pc # "idle" => <>(pc = "idle"))

C9_Witness ==
    /\ call.op = "refresh_from_device" /\ call.timeout = 2 /\ call.ret = "None"
    /\ io.extracts = 3
    /\ now = rf.start + 2
    /\ conflicts # EmptyDict /\ pending_apply

RECURSIVE FieldsResolve(_, _)
\* every segment names a field of the record reached so far
FieldsResolve(cursor, names) ==
    \/ names = <<>>
    \/ /\ is_dataclass(cursor)
       /\ Join(normalize_field(Head(names))) \in fields(cursor)
       /\ FieldsResolve(cursor.f[Join(normalize_field(Head(names)))], Tail(names))

\* C10: set_param with an empty path, or a path with a segment that is no
\* field at its level, raises and leaves staged, live, conflicts,
\* pending_apply and last_edit_time unchanged.
C10_MalformedPathRaises ==
    [][ (/\ call'.op = "set_param"
         /\ \/ PathParts(call'.path) = <<>>
            \/ ~ FieldsResolve(staged_state, PathParts(call'.path))) =>
          /\ call'.ret \in {"ValueError", "AttributeError"}
          /\ UNCHANGED ControllerFields ]_vars

RECURSIVE DotPath(_)
\* the dot-path a sequence of path segments addresses once each is normalised
DotPath(parts) ==
    IF parts = <<>> THEN ""
    ELSE IF Len(parts) = 1 THEN Join(normalize_field(parts[1]))
    ELSE Join(normalize_field(Head(parts))) \o "." \o DotPath(Tail(parts))

\* C11: a successful set_param(path, value) assigns value to exactly one leaf
\* of staged, the leaf the path addresses once each segment is trimmed,
\* lower-cased and has spaces and hyphens turned into underscores ('/' and '.'
\* both separate segments); every other leaf of staged and all of live and
\* conflicts are unchanged, pending_apply is true afterwards and
\* last_edit_time is the clock reading.
C11_SetParamAssignsOneLeaf ==
    [][ (call'.op = "set_param" /\ call'.ret = "None") =>
          LET p == DotPath(PathParts(call'.path))
          IN /\ p \in LeafPaths
             /\ ValueAt(staged_state', p) = call'.value
             /\ \A q \in LeafPaths \ {p} :
                   ValueAt(staged_state', q) = ValueAt(staged_state, q)
             /\ live_state' = live_state
             /\ conflicts' = conflicts
             /\ pending_apply'
             /\ last_edit_time' = now ]_vars

\* C12: for all snapshots L and S, diff(L,S) has an entry at dot-path p, equal
\* to {live: L's value at p, staged: S's value at p}, exactly when p is a leaf
\* path at which S's value is not None and differs from L's value (None in L
\* against a present S leaf differs); a None leaf or an absent section of S
\* contributes no entry whatever L holds there.
C12_DiffEntries ==
    output.op = "diff_state" =>
        LET L == input.live
            S == input.staged
            d == output.value
        IN /\ DOMAIN d \subseteq LeafPaths
           /\ \A p \in LeafPaths :
                 /\ (p \in DOMAIN d) <=>
                       (LeafOrNone(S, p) # None /\ LeafOrNone(S, p) # LeafOrNone(L, p))
                 /\ (p \in DOMAIN d) =>
                       d[p] = [live |-> LeafOrNone(L, p), staged |-> LeafOrNone(S, p)]

\* live has no gain and gate on; staged sets gain 7 and says nothing on the gate
C12_Witness ==
    /\ output.op = "diff_state"
    /\ LeafOrNone(input.live, "amp.gain") = None
    /\ LeafOrNone(input.live, "gate.on") = BoolV(TRUE)
    /\ LeafOrNone(input.staged, "gate.on") = None
    /\ output.value = [p \in {"amp.gain"} |-> [live |-> None, staged |-> IntV(7)]]

\* C13: for all snapshots L and S, every leaf of merge(L,S) is S's value at
\* that path when it is not None and L's value otherwise; merge(L, empty
\* snapshot) equals L; the call leaves L and S as they were.
C13_MergeLeaves ==
    /\ [](output.op = "apply_state" =>
            LET L == input.live
                S == input.staged
                M == output.value
            IN /\ \A p \in LeafPaths :
                     LeafOrNone(M, p) = IF LeafOrNone(S, p) # None
                                        THEN LeafOrNone(S, p) ELSE LeafOrNone(L, p)
               /\ (S = THR10State) => (M = L))
    /\ [][output'.op = "apply_state" => input' = input]_vars

\* staged's gain 7 over live's 5, live's gate flag kept
C13_Witness ==
    /\ output.op = "apply_state"
    /\ LeafOrNone(input.live, "amp.gain") = IntV(5)
    /\ LeafOrNone(input.live, "gate.on") = BoolV(FALSE)
    /\ LeafOrNone(input.staged, "amp.gain") = IntV(7)
    /\ LeafOrNone(input.staged, "gate.on") = None
    /\ LeafOrNone(output.value, "amp.gain") = IntV(7)
    /\ LeafOrNone(output.value, "gate.on") = BoolV(FALSE)

\* C14 as stated: for all snapshots L and S, diff(L, merge(L,S)) has no entry
\* at any path at which S had a value other than None.
C14_NoDiffLiveMergedWhereStaged ==
    output.op = "diff_live_merged" =>
        \A p \in LeafPaths :
            LeafOrNone(input.staged, p) # None => p \notin DOMAIN output.value

\* C14 amended: for all snapshots L and S, diff(merge(L,S), S) has no entry
\* at any path at which S had a value other than None (the merge has adopted
\* every staged value).
C14_NoDiffMergedStaged ==
    output.op = "diff_merged_staged" =>
        \A p \in LeafPaths :
            LeafOrNone(input.staged, p) # None => p \notin DOMAIN output.value

C14_Witness ==
    /\ output.op = "diff_merged_staged"
    /\ LeafOrNone(input.live, "amp.gain") = IntV(5)
    /\ LeafOrNone(input.staged, "amp.gain") = IntV(7)
    /\ LeafOrNone(input.live, "gate.on") = BoolV(TRUE)
    /\ LeafOrNone(input.staged, "gate.on") = BoolV(FALSE)
    /\ output.value = EmptyDict

\* C15: for all snapshots L and S, diff(L, merge(L,S)) has exactly the paths
\* of diff(L,S), with the same live and staged values at each, and these are
\* only paths whose staged leaf is not None.
C15_DiffLiveMergedIsDiff ==
    output.op = "diff_live_merged" =>
        /\ output.value = diff_state(input.live, input.staged)
        /\ \A p \in DOMAIN output.value : LeafOrNone(input.staged, p) # None

C15_Witness ==
    /\ output.op = "diff_live_merged"
    /\ LeafOrNone(input.live, "gate.on") = BoolV(TRUE)
    /\ LeafOrNone(input.staged, "gate.on") = None
    /\ output.value = [p \in {"amp.gain"} |-> [live |-> IntV(5), staged |-> IntV(7)]]

SectionAttr(setting) == IF setting = "control" THEN "amp" ELSE setting

SectionFields(setting) ==
    IF setting = "control" THEN {"gain", "master", "bass", "middle", "treble"}
    ELSE fields(THR10State.f[setting])

SectionKindNames(setting) ==
    CASE setting = "compressor" -> {"stomp", "rack"}
      [] setting = "modulation" -> {"chorus", "flanger", "tremelo", "phaser"}
      [] setting = "reverb" -> {"hall", "room", "plate", "spring"}
      [] OTHER -> {}

\* the attribute key under which a line carries a field
KeyOfField(f) ==
    CASE f = "high_cut" -> "high cut" [] f = "low_cut" -> "low cut"
      [] f = "high_ratio" -> "high ratio" [] f = "low_ratio" -> "low ratio"
      [] OTHER -> f

\* whether a tokenised line says anything about a field of its section
Mentions(line, f) ==
    LET keys == {line.values[i].k : i \in 1..Len(line.values)}
    IN CASE f = "on" -> keys \cap {"on", "off"} # {}
         [] f = "kind" -> keys \cap SectionKindNames(line.setting) # {}
         [] OTHER -> KeyOfField(f) \in keys

\* C17: while a sequence of tokenised lines is parsed, a field set by an
\* earlier line of a section keeps its value after a later line of the same
\* section that does not mention it; this holds for every field of the
\* section: the on flag, the kind, each integer field, and the compressor's
\* ratio and knee.
C17_LaterLineKeepsFields ==
    [][ (/\ input'.op = "parse" /\ input'.n = input.n + 1
         /\ input'.line.setting \in {"control", "compressor", "modulation",
                                     "delay", "reverb", "gate"}) =>
          LET line == input'.line
              before == output.value.f[SectionAttr(line.setting)]
              after == output'.value.f[SectionAttr(line.setting)]
          IN \A f \in SectionFields(line.setting) :
                (before.f[f] # None /\ ~ Mentions(line, f)) => after.f[f] = before.f[f] ]_vars

\* offset of a section's on flag in the parameter block
FlagOffset(section) ==
    CASE section = "compressor" -> 159 [] section = "modulation" -> 175
      [] section = "delay" -> 191 [] section = "reverb" -> 207
      [] section = "gate" -> 223

\* C18: for each of the five on flags (compressor 159, modulation 175, delay
\* 191, reverb 207, gate 223) and every state, the encoded block holds 0x00 at
\* the flag's offset when on is true and 0x7F when it is false or absent, and
\* never anything else.
C18_OnOffSentinel ==
    output.op = "state_to_data" =>
        \A section \in {"compressor", "modulation", "delay", "reverb", "gate"} :
            output.data[FlagOffset(section)] =
                IF input.state.f[section].f.on = BoolV(TRUE) THEN 0 ELSE 127

\* compressor on, modulation and gate off, delay and reverb without a flag
C18_Witness ==
    /\ output.op = "state_to_data"
    /\ input.state.f.compressor.f.on = BoolV(TRUE)
    /\ input.state.f.modulation.f.on = BoolV(FALSE)
    /\ input.state.f.delay.f.on = None
    /\ input.state.f.reverb.f.on = None
    /\ input.state.f.gate.f.on = BoolV(FALSE)
    /\ output.data[159] = 0
    /\ output.data[175] = 127 /\ output.data[191] = 127
    /\ output.data[207] = 127 /\ output.data[223] = 127

\* the kind the precedence rules resolve a section to
ResolvedCompressorKind(c) ==
    IF c.f.kind # None THEN c.f.kind.sv
    ELSE IF \E n \in {"threshold", "attack", "release", "ratio", "knee"} : c.f[n] # None
         THEN "Rack"
    ELSE "Stomp"

ResolvedModulationKind(m) ==
    IF m.f.kind # None THEN m.f.kind.sv
    ELSE IF m.f.spread # None \/ m.f.manual # None THEN "Flanger"
    ELSE IF m.f.freq # None THEN "Tremelo"
    ELSE IF m.f.feedback # None THEN "Phaser"
    ELSE "Chorus"

ResolvedReverbKind(r) ==
    IF r.f.kind # None THEN r.f.kind.sv
    ELSE IF r.f.reverb # None \/ r.f.filter # None THEN "Spring"
    ELSE "Hall"

\* position of a name in an ordered list of names, counted from 0
IndexOf(name, names) == (CHOOSE i \in 1..Len(names) : names[i] = name) - 1

\* the number a field encodes to: its value, the minimum 0 when absent, the
\* maximum when above it
Clamped(v, max) == IF v = None THEN 0 ELSE IF v.iv > max THEN max ELSE v.iv

\* C19: for a compressor that resolves to the Rack variant, the encoded block
\* holds at 146 and 147 the high and the low seven bits of the clamped
\* threshold, whatever attack, release, ratio, knee and output are, so that
\* the 14-bit pair at 146-147 decodes to the threshold that was set.
C19_RackThresholdBytes ==
    (output.op = "state_to_data"
       /\ ResolvedCompressorKind(input.state.f.compressor) = "Rack") =>
        LET threshold == Clamped(input.state.f.compressor.f.threshold, 600)
        IN /\ output.data[146] = threshold \div 128
           /\ output.data[147] = threshold % 128
           /\ output.data[146] * 128 + output.data[147] = threshold

\* the bytes of a 14-bit pair
Pair(data, at) == data[at] * 128 + data[at + 1]

\* C20: at encode time an explicit kind wins; otherwise Compressor is Rack if
\* any of threshold, attack, release, ratio, knee is set and Stomp if not;
\* Modulation is Flanger if spread or manual is set, else Tremelo if freq is
\* set, else Phaser if feedback is set, else Chorus; Reverb is Spring if
\* reverb or filter is set and Hall if not.  The type-index byte (144, 160,
\* 192) is that of the resolved kind and the variant bytes are the ones the
\* resolved kind writes (the others stay 0).
C20_KindPrecedence ==
    output.op = "state_to_data" =>
        LET d == output.data
            c == input.state.f.compressor
            m == input.state.f.modulation
            r == input.state.f.reverb
            ck == ResolvedCompressorKind(c)
            mk == ResolvedModulationKind(m)
            rk == ResolvedReverbKind(r)
        IN /\ d[144] = IndexOf(ck, THR10_COMPRESSOR_NAMES)
           /\ ck = "Stomp" =>
                 /\ d[145] = Clamped(c.f.sustain, 100)
                 /\ d[146] = Clamped(c.f.output, 100)
                 /\ \A i \in 147..152 : d[i] = 0
           /\ ck = "Rack" =>
                 /\ d[145] = 0
                 /\ d[146] = Clamped(c.f.threshold, 600) \div 128
                 /\ d[148] = Clamped(c.f.release, 100)
                 /\ d[149] = IF c.f.ratio = None THEN 0
                              ELSE IndexOf(c.f.ratio.sv, THR10_RATIO_NAMES)
                 /\ d[150] = IF c.f.knee = None THEN 0
                              ELSE IndexOf(c.f.knee.sv, THR10_KNEE_NAMES)
                 /\ Pair(d, 151) = Clamped(c.f.output, 600)
           /\ d[160] = IndexOf(mk, THR10_MODULATION_NAMES)
           /\ mk = "Chorus" =>
                 /\ d[161] = Clamped(m.f.speed, 100) /\ d[162] = Clamped(m.f.depth, 100)
                 /\ d[163] = Clamped(m.f.mix, 100) /\ d[164] = 0 /\ d[165] = 0
           /\ mk = "Flanger" =>
                 /\ d[161] = Clamped(m.f.speed, 100) /\ d[162] = Clamped(m.f.manual, 100)
                 /\ d[163] = Clamped(m.f.depth, 100) /\ d[164] = Clamped(m.f.feedback, 100)
                 /\ d[165] = Clamped(m.f.spread, 100)
           /\ mk = "Tremelo" =>
                 /\ d[161] = Clamped(m.f.freq, 100) /\ d[162] = Clamped(m.f.depth, 100)
                 /\ d[163] = 0 /\ d[164] = 0 /\ d[165] = 0
           /\ mk = "Phaser" =>
                 /\ d[161] = Clamped(m.f.speed, 100) /\ d[162] = Clamped(m.f.manual, 100)
                 /\ d[163] = Clamped(m.f.depth, 100) /\ d[164] = Clamped(m.f.feedback, 100)
                 /\ d[165] = 0
           /\ d[192] = IndexOf(rk, THR10_REVERB_NAMES)
           /\ rk \in {"Hall", "Room", "Plate"} =>
                 /\ Pair(d, 193) = Clamped(r.f.time, 600)
                 /\ Pair(d, 195) = Clamped(r.f.pre, 600)
                 /\ Pair(d, 197) = Clamped(r.f.low_cut, 600)
                 /\ Pair(d, 199) = Clamped(r.f.high_cut, 600)
                 /\ d[201] = Clamped(r.f.high_ratio, 100)
                 /\ d[202] = Clamped(r.f.low_ratio, 100)
                 /\ d[203] = Clamped(r.f.level, 100)
           /\ rk = "Spring" =>
                 /\ d[193] = Clamped(r.f.reverb, 100) /\ d[194] = Clamped(r.f.filter, 100)
                 /\ \A i \in 195..203 : d[i] = 0

\* no kind given, manual and freq both set: Flanger, not Tremelo
C20_Witness ==
    /\ output.op = "state_to_data"
    /\ input.state.f.modulation.f.kind = None
    /\ input.state.f.modulation.f.manual = IntV(20)
    /\ input.state.f.modulation.f.freq = IntV(30)
    /\ input.state.f.modulation.f.spread = None
    /\ output.data[160] = 1
    /\ output.data[161] = 0 /\ output.data[162] = 20

\* C21 as stated: while edits are pending, an unforced flush_debounced less
\* than the debounce window after the most recent set_param writes nothing
\* and keeps the edits pending; the first unforced flush at least one window
\* after the last edit performs exactly one write, which carries every staged
\* edit, and clears pending_apply; a flush with nothing pending writes
\* nothing, and only set_param makes edits pending again.
C21_BurstOneWrite ==
    /\ [][ (/\ call'.op = "flush_debounced" /\ ~ call'.force
            /\ pending_apply /\ last_edit_time # NoTime) =>
              IF now - last_edit_time < DebounceTicks
              THEN /\ io'.writes = <<>>
                   /\ staged_state' = staged_state
                   /\ pending_apply'
              ELSE /\ Len(io'.writes) = 1
                   /\ io'.writes = <<to_text_settings(live_state')>>
                   /\ \A p \in DOMAIN diff_state(THR10State, staged_state) :
                         ValueAt(live_state', p) = ValueAt(staged_state, p)
                   /\ ~ pending_apply' ]_vars
    /\ [][ (call'.op = "flush_debounced" /\ ~ pending_apply) => io'.writes = <<>> ]_vars
    /\ [][ (pending_apply' /\ ~ pending_apply) => call'.op = "set_param" ]_vars

\* C21 amended: as C21, but the first unforced flush at least one window
\* after the last edit performs exactly one write, carrying every staged
\* edit, when staged then differs from live, and no write when every staged
\* edit already equals live's value; either way it clears pending_apply.
C21_BurstOneWriteIfDifferent ==
    /\ [][ (/\ call'.op = "flush_debounced" /\ ~ call'.force
            /\ pending_apply /\ last_edit_time # NoTime) =>
              IF now - last_edit_time < DebounceTicks
              THEN /\ io'.writes = <<>>
                   /\ staged_state' = staged_state
                   /\ pending_apply'
              ELSE /\ IF \E p \in DOMAIN diff_state(THR10State, staged_state) :
                             ValueAt(staged_state, p) # ValueAt(live_state, p)
                      THEN /\ Len(io'.writes) = 1
                           /\ io'.writes = <<to_text_settings(live_state')>>
                           /\ \A p \in DOMAIN diff_state(THR10State, staged_state) :
                                 ValueAt(live_state', p) = ValueAt(staged_state, p)
                      ELSE io'.writes = <<>>
                   /\ ~ pending_apply' ]_vars
    /\ [][ (call'.op = "flush_debounced" /\ ~ pending_apply) => io'.writes = <<>> ]_vars
    /\ [][ (pending_apply' /\ ~ pending_apply) => call'.op = "set_param" ]_vars

\* edits of gain and gate flag, the last at t = 0.05 s, written together by
\* the unforced flush at t = 0.35 s
C21_Witness ==
    /\ call.op = "flush_debounced" /\ ~ call.force /\ call.applied
    /\ last_edit_time = 1 /\ now = 7
    /\ Len(io.writes) = 1
    /\ io.writes[1].data[129] = 7
    /\ io.writes[1].data[223] = 0
    /\ ~ pending_apply

\* C22: in every reachable controller state, if diff(live, staged) is not
\* empty then pending_apply is true.
C22_DifferingStagedIsPending ==
    DOMAIN diff_state(live_state, staged_state) # {} => pending_apply

\* C23: after any sequence of successful set_param calls staged is a
\* well-formed state tree, each of amp, cab, compressor, modulation, delay,
\* reverb and gate holding a record of its own section type, and no
\* apply_staged fails while encoding.
C23_StagedWellFormed ==
    /\ \A s \in DOMAIN SectionClasses :
          /\ is_dataclass(staged_state.f[s])
          /\ staged_state.f[s].cls = SectionClasses[s]
    /\ ~ (call.op = "apply_staged" /\ call.ret = "AttributeError")

\* C24: a successful refresh_from_device replaces live with the decoded
\* device state and leaves staged, pending_apply and last_edit_time unchanged;
\* the conflicts it recomputes are taken against the previous live: a path is
\* in conflicts exactly when staged and the device state both hold a value
\* there that differs from the previous live's, and its entry records the
\* previous live's value.
C24_RefreshFrame ==
    [][ (call'.op = "refresh_from_device" /\ call'.ret = "state" /\ pc = "extract") =>
          /\ live_state' \in DeviceStates
          /\ staged_state' = staged_state
          /\ pending_apply' = pending_apply
          /\ last_edit_time' = last_edit_time
          /\ LET set == (DOMAIN diff_state(THR10State, staged_state))
                           \cap (DOMAIN diff_state(THR10State, live_state'))
             IN /\ DOMAIN conflicts' =
                     {p \in set : /\ ValueAt(staged_state, p) # ValueAt(live_state, p)
                                  /\ ValueAt(live_state', p) # ValueAt(live_state, p)}
                /\ \A p \in DOMAIN conflicts' :
                     conflicts'[p].live = ValueAt(live_state, p) ]_vars

\* an edit pending on a fresh controller when the device reports the same
\* gain: the conflict is against the previous live, which held no gain,
\* although the new live agrees with staged
C24_Witness ==
    /\ call.op = "refresh_from_device" /\ call.ret = "state"
    /\ pending_apply /\ last_edit_time = 0
    /\ ValueAt(staged_state, "amp.gain") = IntV(7)
    /\ ValueAt(live_state, "amp.gain") = IntV(7)
    /\ "amp.gain" \in DOMAIN conflicts
    /\ conflicts["amp.gain"].live = None

====
